---------------------------- MODULE Spec2Model ----------------------------
(***************************************************************************)
(* Sequential workflow of the artifact-restoration service.                *)
(*                                                                         *)
(* One ADKOrchestrator (app.py:29) owns one ContextManager that every      *)
(* request thread shares.  A run of ADKOrchestrator.process_artifact is a  *)
(* thread r; it blocks in four capability calls (vision, restoration       *)
(* tool, historical runner, environmental runner).  A step of the model    *)
(* is the code a thread executes between two points at which another       *)
(* thread may run: the entry of a stage handler and a blocking capability  *)
(* call inside it.                                                         *)
(*                                                                         *)
(* Python values are modelled as follows.  A dict whose order matters      *)
(* (ContextManager.artifact_context, .agent_outputs) is a sequence of      *)
(* [k, v] pairs.  A stage result dict and the orchestrator's results dict  *)
(* are functions from key strings to values.  None, True, a str stored as  *)
(* a fact and a model text are records, so that values of different        *)
(* Python types are distinct and comparable.                               *)
(***************************************************************************)
EXTENDS Integers, Sequences, FiniteSets, TLC

VARIABLES
    conversation_history,   \* ContextManager.conversation_history
    artifact_context,       \* ContextManager.artifact_context (ordered dict)
    agent_outputs,          \* ContextManager.agent_outputs    (ordered dict)
    pc,                     \* per thread: where process_artifact stands
    args,                   \* per thread: (image_path, restoration_level, time_span)
    results,                \* per thread: the local dict `results`
    frame                   \* per thread: locals of the handler blocked in a capability call

vars == <<conversation_history, artifact_context, agent_outputs,
          pc, args, results, frame>>
context == <<conversation_history, artifact_context, agent_outputs>>

(***************************************************************************)
(* Bounds and input sets                                                   *)
(***************************************************************************)
NumRuns == 2
Runs == 1..NumRuns
Images == {"a.jpg", "b.jpg", "c.jpg"}
Levels == {"medium"}
Spans == {20}
ProviderErrors == {"quota exceeded"}

(***************************************************************************)
(* Python values                                                           *)
(***************************************************************************)
PyNone == [py |-> "None"]
PyTrue == [py |-> "True"]
Str(s) == [str |-> s]
Get(d, k, default) == IF k \in DOMAIN d THEN d[k] ELSE default
\* truthiness of a value that is None or a dict
Truthy(d) == d # PyNone /\ DOMAIN d # {}

\* ordered dict: d[k] = v keeps the position of an existing key
DictHas(d, k) == \E i \in 1..Len(d) : d[i].k = k
DictSet(d, k, v) ==
    IF DictHas(d, k)
    THEN [i \in 1..Len(d) |-> IF d[i].k = k THEN [k |-> k, v |-> v] ELSE d[i]]
    ELSE Append(d, [k |-> k, v |-> v])
\* d.get(k): the value, or None
DictGet(d, k) ==
    IF DictHas(d, k) THEN (CHOOSE e \in {d[i] : i \in 1..Len(d)} : e.k = k).v
    ELSE PyNone
DictKeys(d) == {d[i].k : i \in 1..Len(d)}

(***************************************************************************)
(* ContextManager (adk_config.py)                                          *)
(***************************************************************************)
set_artifact_context(ctx, key, value) == DictSet(ctx, key, value)

get_artifact_context(ctx, key) ==
    IF key # "" THEN DictGet(ctx, key) ELSE [dict |-> ctx]

store_agent_output(outs, agent_name, output) == DictSet(outs, agent_name, output)

get_agent_output(outs, agent_name) == DictGet(outs, agent_name)

\* mutant: clear() that forgets artifact_context
clear_keeps_facts(hist, ctx, outs) ==
    [conversation_history |-> <<>>, artifact_context |-> ctx, agent_outputs |-> <<>>]

\* mutant: clear() that forgets agent_outputs
clear_keeps_outputs(hist, ctx, outs) ==
    [conversation_history |-> <<>>, artifact_context |-> <<>>, agent_outputs |-> outs]

\* ContextManager.clear(): the three containers afterwards
clear(hist, ctx, outs) ==
    [conversation_history |-> <<>>, artifact_context |-> <<>>, agent_outputs |-> <<>>]

\* mutant: a summary that leaves out the output of the stage it is built for
build_context_prompt_for_agent(ctx, outs, current_agent) ==
    LET others == SelectSeq(outs, LAMBDA e : e.k # current_agent)
    IN  (IF ctx # <<>>
         THEN <<[part |-> "=== ARTIFACT CONTEXT ==="]>>
              \o [i \in 1..Len(ctx) |-> [part |-> "fact", key |-> ctx[i].k, value |-> ctx[i].v]]
              \o <<[part |-> ""]>>
         ELSE <<>>)
        \o
        (IF others # <<>>
         THEN <<[part |-> "=== PREVIOUS AGENT OUTPUTS ==="]>>
              \o [i \in 1..Len(others) |->
                     [part |-> "output", agent |-> others[i].k, output |-> others[i].v]]
              \o <<[part |-> ""]>>
         ELSE <<>>)

\* "\n".join(context_parts): the sequence of parts; current_agent is not read
build_context_prompt(ctx, outs, current_agent) ==
    (IF ctx # <<>>
     THEN <<[part |-> "=== ARTIFACT CONTEXT ==="]>>
          \o [i \in 1..Len(ctx) |-> [part |-> "fact", key |-> ctx[i].k, value |-> ctx[i].v]]
          \o <<[part |-> ""]>>
     ELSE <<>>)
    \o
    (IF outs # <<>>
     THEN <<[part |-> "=== PREVIOUS AGENT OUTPUTS ==="]>>
          \o [i \in 1..Len(outs) |-> [part |-> "output", agent |-> outs[i].k, output |-> outs[i].v]]
          \o <<[part |-> ""]>>
     ELSE <<>>)


(***************************************************************************)
(* Model texts: what a model returns is a sequence of lines; a line with a *)
(* colon is given by the parts line.split(':', 1) yields.                  *)
(***************************************************************************)
KV(key, value) == [key |-> key, value |-> value]
Plain(s) == [plain |-> s]
HasColon(line) == "key" \in DOMAIN line
IsText(v) == "text" \in DOMAIN v

\* key.strip().lower().replace(' ', '_') and value.strip() on the keys and values used
NormKey(key) ==
    CASE key = "TYPE" -> "type"
      [] key = "MATERIALS" -> "materials"
      [] key = "MATERIAL" -> "material"
      [] key = "CONDITION" -> "condition"
      [] key = "ARTIFACT NAME" -> "artifact_name"
      [] key = "STATUS" -> "status"
      [] key = "MESSAGE" -> "message"
      [] OTHER -> key
Strip(value) ==
    CASE value = " sculpture" -> "sculpture"
      [] value = " stone" -> "stone"
      [] value = " pottery" -> "pottery"
      [] value = " poor" -> "poor"
      [] OTHER -> value

TextSculpture == <<KV("TYPE", " sculpture"), KV("MATERIALS", " stone")>>
TextPlain == <<Plain("a weathered object")>>
TextStatus == <<KV("STATUS", " poor"), KV("TYPE", " pottery")>>
Texts == {TextSculpture, TextPlain, TextStatus}

\* what the vision provider answers: a text, or a provider error
VisionResponses ==
    {[ok |-> TRUE, text |-> t] : t \in Texts} \cup {[ok |-> FALSE, e |-> e] : e \in ProviderErrors}
\* what the text provider (the ADK runner) answers to a prompt
TextResponses == {[ok |-> TRUE]} \cup {[ok |-> FALSE, e |-> e] : e \in ProviderErrors}

\* a call's outcome: a returned value or a raised exception e with str(e)
Returned(v) == [raised |-> FALSE, value |-> v]
Raised(e) == [raised |-> TRUE, e |-> e]

(***************************************************************************)
(* tools/restoration_tools.py                                              *)
(***************************************************************************)
\* always returns a dict: the provider's error is caught inside the tool
identify_artifact_with_vision(image_path, resp) ==
    IF resp.ok
    THEN [status |-> "success", identification |-> [text |-> resp.text],
          has_vision_data |-> TRUE]
    ELSE [status |-> "error",
          error_message |-> "Vision identification failed: " \o resp.e,
          has_vision_data |-> FALSE]

\* the vision capability of the design (identify(image) -> text): a double for
\* the tool above that returns the model's text, or fails with the provider's error
identify(image_path, resp) ==
    IF resp.ok THEN Returned([text |-> resp.text]) ELSE Raised(resp.e)

\* the call identify_artifact_with_vision(image_path) at sequential_agents.py:72
CallVisionTool(tool, image_path, resp) ==
    IF tool = "shipped"
    THEN Returned(identify_artifact_with_vision(image_path, resp))
    ELSE identify(image_path, resp)

\* env: does the file exist, does the Gemini analysis answer, is an OpenAI key
\* (and library) present, does DALL-E generate and the download succeed
RestoreEnvs ==
    {[exists |-> FALSE, analysis_ok |-> TRUE, openai |-> TRUE, dalle_ok |-> TRUE],
     [exists |-> TRUE, analysis_ok |-> FALSE, openai |-> TRUE, dalle_ok |-> TRUE],
     [exists |-> TRUE, analysis_ok |-> TRUE, openai |-> TRUE, dalle_ok |-> TRUE],
     [exists |-> TRUE, analysis_ok |-> TRUE, openai |-> TRUE, dalle_ok |-> FALSE],
     [exists |-> TRUE, analysis_ok |-> TRUE, openai |-> FALSE, dalle_ok |-> FALSE]}

restore_artifact_image(image_path, restoration_level, artifact_type, env) ==
    IF image_path = PyNone
    THEN [status |-> "error", error_message |-> "Restoration failed: TypeError"]
    ELSE IF ~env.exists
    THEN [status |-> "error", error_message |-> "Image not found: " \o image_path.str]
    ELSE IF ~env.analysis_ok
    THEN [status |-> "error", error_message |-> "Restoration failed: provider error"]
    ELSE IF env.openai /\ env.dalle_ok
    THEN [status |-> "success",
          message |-> "AI-generated pristine " \o artifact_type \o " using DALL-E 3",
          restored_image_base64 |-> [generated |-> artifact_type],
          restoration_level |-> restoration_level,
          artifact_type |-> artifact_type,
          generation_method |-> "OpenAI DALL-E 3 - Full Reconstruction"]
    ELSE [status |-> "success",
          message |-> "Enhanced " \o artifact_type \o " with AI reconstruction guidance",
          restored_image_base64 |-> [enhanced |-> image_path.str],
          restoration_level |-> restoration_level,
          artifact_type |-> artifact_type,
          generation_method |-> "Enhanced Image + AI Description (Set OPENAI_API_KEY for full generation)"]

\* rates in tenths of a percent per year
DefaultRate10 == 30
degradation_rates ==
    [paper |-> 45, canvas |-> 35, wood |-> 28, textile |-> 40,
     stone |-> 8, metal |-> 15, ceramic |-> 10, glass |-> 5]
Lower(s) ==
    CASE s = "Stone" -> "stone"
      [] s = "Paper" -> "paper"
      [] OTHER -> s
Min(a, b) == IF a <= b THEN a ELSE b

\* mutant: the percentage wrapping around at 100 in place of the cap
predict_degradation_wrapping(material, years) ==
    LET material_lower == Lower(material)
        rate == Get(degradation_rates, material_lower, DefaultRate10)
        degradation == (rate * years) % 1001
        condition ==
            IF degradation < 100 THEN "Excellent - Minimal changes"
            ELSE IF degradation < 250 THEN "Good - Minor surface wear"
            ELSE IF degradation < 500 THEN "Fair - Noticeable degradation, some detail loss"
            ELSE IF degradation < 750 THEN "Poor - Significant deterioration"
            ELSE "Critical - Severe damage, major restoration required"
    IN  [status |-> "success", material |-> material, years |-> years,
         degradation_percentage |-> degradation, condition |-> condition]

\* mutant: band limits that belong to the lower band
predict_degradation_inclusive(material, years) ==
    LET material_lower == Lower(material)
        rate == Get(degradation_rates, material_lower, DefaultRate10)
        degradation == Min(rate * years, 1000)
        condition ==
            IF degradation <= 100 THEN "Excellent - Minimal changes"
            ELSE IF degradation <= 250 THEN "Good - Minor surface wear"
            ELSE IF degradation <= 500 THEN "Fair - Noticeable degradation, some detail loss"
            ELSE IF degradation <= 750 THEN "Poor - Significant deterioration"
            ELSE "Critical - Severe damage, major restoration required"
    IN  [status |-> "success", material |-> material, years |-> years,
         degradation_percentage |-> degradation, condition |-> condition]

\* mutant: the percentage without its cap
predict_degradation_uncapped(material, years) ==
    LET material_lower == Lower(material)
        rate == Get(degradation_rates, material_lower, DefaultRate10)
        degradation == rate * years
        condition ==
            IF degradation < 100 THEN "Excellent - Minimal changes"
            ELSE IF degradation < 250 THEN "Good - Minor surface wear"
            ELSE IF degradation < 500 THEN "Fair - Noticeable degradation, some detail loss"
            ELSE IF degradation < 750 THEN "Poor - Significant deterioration"
            ELSE "Critical - Severe damage, major restoration required"
    IN  [status |-> "success", material |-> material, years |-> years,
         degradation_percentage |-> degradation, condition |-> condition]

\* degradation_percentage is in tenths of a percent
predict_degradation(material, years) ==
    LET material_lower == Lower(material)
        rate == Get(degradation_rates, material_lower, DefaultRate10)
        degradation == Min(rate * years, 1000)
        condition ==
            IF degradation < 100 THEN "Excellent - Minimal changes"
            ELSE IF degradation < 250 THEN "Good - Minor surface wear"
            ELSE IF degradation < 500 THEN "Fair - Noticeable degradation, some detail loss"
            ELSE IF degradation < 750 THEN "Poor - Significant deterioration"
            ELSE "Critical - Severe damage, major restoration required"
    IN  [status |-> "success", material |-> material, years |-> years,
         degradation_percentage |-> degradation, condition |-> condition]


(***************************************************************************)
(* agents/sequential_agents.py: the four stage handlers.  A handler that   *)
(* blocks in a capability call is given in two parts: up to the call, and  *)
(* from the call's outcome to its return.  Each part yields the context it *)
(* leaves and, when the handler returns, its result.                       *)
(***************************************************************************)
ErrorResult(message) == [status |-> "error", message |-> message]
SetKey(d, k, v) == [x \in DOMAIN d \cup {k} |-> IF x = k THEN v ELSE d[x]]
Status(d) == IF "status" \in DOMAIN d THEN d.status ELSE "None"

\* for line in identification.split('\n'): if ':' in line: result[key] = value.strip()
RECURSIVE ParseFields(_, _)
ParseFields(lines, result) ==
    IF lines = <<>> THEN result
    ELSE LET line == Head(lines)
         IN  ParseFields(Tail(lines),
                         IF HasColon(line)
                         THEN SetKey(result, NormKey(line.key), Strip(line.value))
                         ELSE result)

\* analyze, lines 75-96: the tool returned `identification`, a text
analyze_parsed(ctx, outs, image_path, identification) ==
    LET ctx2 == set_artifact_context(
                    set_artifact_context(ctx, "image_path", Str(image_path)),
                    "identification", identification)
        result == ParseFields(identification.text,
                              [status |-> "success",
                               identification |-> identification,
                               raw_analysis |-> identification])
    IN  [ctx |-> ctx2,
         outs |-> store_agent_output(outs, "vision", result),
         result |-> result]

\* mutant: analyze without its try/except
analyze_uncaught(ctx, outs, image_path, call) ==
    IF call.raised
    THEN [ctx |-> ctx, outs |-> outs, result |-> [exception |-> call.e]]
    ELSE analyze_parsed(ctx, outs, image_path, call.value)

\* VisionAnalysisAgent.analyze from the outcome of the tool call on
analyze(ctx, outs, image_path, call) ==
    IF call.raised
    THEN [ctx |-> ctx,
          outs |-> store_agent_output(outs, "vision", ErrorResult(call.e)),
          result |-> ErrorResult(call.e)]
    ELSE IF IsText(call.value)
    THEN analyze_parsed(ctx, outs, image_path, call.value)
    ELSE \* identification.split raises AttributeError, caught at line 98
         LET e == "'dict' object has no attribute 'split'"
         IN  [ctx |-> set_artifact_context(
                          set_artifact_context(ctx, "image_path", Str(image_path)),
                          "identification", call.value),
              outs |-> store_agent_output(outs, "vision", ErrorResult(e)),
              result |-> ErrorResult(e)]

\* context_prompt[:500] + "..." if len(context_prompt) > 500 else context_prompt
ContextUsed(context_prompt) == [first_500_of |-> context_prompt]

\* mutant: generate_restoration testing only that a vision output is present
generate_restoration_enter_unchecked(ctx, outs) ==
    LET vision_output == get_agent_output(outs, "vision")
    IN  IF ~Truthy(vision_output)
        THEN [done |-> TRUE,
              result |-> ErrorResult("Vision analysis required before restoration")]
        ELSE [done |-> FALSE,
              image_path |-> get_artifact_context(ctx, "image_path"),
              artifact_type |-> Get(vision_output, "type", "artifact"),
              context_prompt |-> build_context_prompt(ctx, outs, "restoration")]

\* RestorationGenerationAgent.generate_restoration up to the tool call:
\* either it returns at once (done) or it blocks with these locals
generate_restoration_enter(ctx, outs) ==
    LET vision_output == get_agent_output(outs, "vision")
    IN  IF ~Truthy(vision_output) \/ Status(vision_output) # "success"
        THEN [done |-> TRUE,
              result |-> ErrorResult("Vision analysis required before restoration")]
        ELSE [done |-> FALSE,
              image_path |-> get_artifact_context(ctx, "image_path"),
              artifact_type |-> Get(vision_output, "type", "artifact"),
              context_prompt |-> build_context_prompt(ctx, outs, "restoration")]

\* ... and from the tool's result on
generate_restoration_return(outs, locals, restoration_result) ==
    LET result == [status |-> "success",
                   restored_image_base64 |-> Get(restoration_result, "restored_image", PyNone),
                   restoration_method |-> Get(restoration_result, "method", "AI Generation"),
                   context_used |-> ContextUsed(locals.context_prompt)]
    IN  [outs |-> store_agent_output(outs, "restoration", result), result |-> result]

\* HistoricalContextAgent.fetch_context up to runner.run(prompt)
fetch_context_enter(ctx, outs) ==
    LET vision_output == get_agent_output(outs, "vision")
        restoration_output == get_agent_output(outs, "restoration")
    IN  IF ~Truthy(vision_output)
        THEN [done |-> TRUE, result |-> ErrorResult("Vision analysis required")]
        ELSE [done |-> FALSE,
              prompt |-> [task |-> "historical",
                          context |-> build_context_prompt(ctx, outs, "historical")]]

\* mutant: fetch_context returning its result without storing it
fetch_context_return_unstored(outs, locals, resp) ==
    IF resp.ok
    THEN LET output == [status |-> "success",
                        historical_context |-> [reply_to |-> locals.prompt],
                        sources |-> "Gemini ADK with historical knowledge base"]
         IN  [outs |-> outs, result |-> output]
    ELSE [outs |-> outs, result |-> ErrorResult(resp.e)]

\* mutant: fetch_context reporting the runner's failure as a missing
\* dependency, after the call, and recording it
fetch_context_return_late_check(outs, locals, resp) ==
    IF resp.ok
    THEN LET output == [status |-> "success",
                        historical_context |-> [reply_to |-> locals.prompt],
                        sources |-> "Gemini ADK with historical knowledge base"]
         IN  [outs |-> store_agent_output(outs, "historical", output), result |-> output]
    ELSE [outs |-> store_agent_output(outs, "historical",
                                      ErrorResult("Vision analysis required")),
          result |-> ErrorResult("Vision analysis required")]

\* ... and from the runner's outcome on; the text answers the prompt
fetch_context_return(outs, locals, resp) ==
    IF resp.ok
    THEN LET output == [status |-> "success",
                        historical_context |-> [reply_to |-> locals.prompt],
                        sources |-> "Gemini ADK with historical knowledge base"]
         IN  [outs |-> store_agent_output(outs, "historical", output), result |-> output]
    ELSE [outs |-> store_agent_output(outs, "historical", ErrorResult(resp.e)),
          result |-> ErrorResult(resp.e)]

\* EnvironmentalPredictionAgent.predict_degradation up to runner.run(prompt)
predict_degradation_enter(ctx, outs, years) ==
    LET vision_output == get_agent_output(outs, "vision")
        historical_output == get_agent_output(outs, "historical")
    IN  IF ~Truthy(vision_output) \/ ~Truthy(historical_output)
        THEN [done |-> TRUE,
              result |-> ErrorResult("Vision and historical analysis required")]
        ELSE LET material == Get(vision_output, "materials", "unknown")
                 current_condition == Get(vision_output, "condition", "unknown")
             IN  [done |-> FALSE,
                  material |-> material,
                  prompt |-> [task |-> "environmental",
                              context |-> build_context_prompt(ctx, outs, "environmental"),
                              years |-> years, material |-> material,
                              current_condition |-> current_condition]]

\* ... and from the runner's outcome on
predict_degradation_return(outs, locals, years, resp) ==
    IF resp.ok
    THEN LET degradation_data == predict_degradation(locals.material, years)
             output == [status |-> "success",
                        predictions |-> [reply_to |-> locals.prompt],
                        degradation_timeline |-> Get(degradation_data, "timeline", <<>>),
                        chart_data |-> degradation_data,
                        years_analyzed |-> years]
         IN  [outs |-> store_agent_output(outs, "environmental", output), result |-> output]
    ELSE [outs |-> store_agent_output(outs, "environmental", ErrorResult(resp.e)),
          result |-> ErrorResult(resp.e)]


(***************************************************************************)
(* adk_orchestrator.py: ADKOrchestrator.process_artifact.  Each operator   *)
(* is the code between one stage handler's return and the next handler's   *)
(* call; `returned` tells whether process_artifact returned there.         *)
(***************************************************************************)
Executed(res, agent) == SetKey(res, "agents_executed", Append(res.agents_executed, agent))
\* mutant: a failure that rebuilds the results dict
Fail_fresh(res, status, error) ==
    [image_path |-> res.image_path, restoration_level |-> res.restoration_level,
     time_span |-> res.time_span, workflow_status |-> status,
     agents_executed |-> res.agents_executed, error |-> error]

Fail(res, status, error) == SetKey(SetKey(res, "workflow_status", status), "error", error)

\* lines 93-99
results_init(image_path, restoration_level, time_span) ==
    [image_path |-> image_path, restoration_level |-> restoration_level,
     time_span |-> time_span, workflow_status |-> "running", agents_executed |-> <<>>]

\* mutant: lines 109-116 without the return
after_vision_no_return(res, vision_result) ==
    LET r1 == Executed(SetKey(res, "vision_analysis", vision_result), "VisionAnalysisAgent")
    IN  IF Status(vision_result) # "success"
        THEN [returned |-> FALSE,
              results |-> Fail(r1, "failed_at_vision",
                               Get(vision_result, "message", "Vision analysis failed"))]
        ELSE [returned |-> FALSE, results |-> r1]

\* lines 109-116
after_vision(res, vision_result) ==
    LET r1 == Executed(SetKey(res, "vision_analysis", vision_result), "VisionAnalysisAgent")
    IN  IF Status(vision_result) # "success"
        THEN [returned |-> TRUE,
              results |-> Fail(r1, "failed_at_vision",
                               Get(vision_result, "message", "Vision analysis failed"))]
        ELSE [returned |-> FALSE, results |-> r1]

\* mutant: lines 128-137 going on to Historical without Restoration's result
after_restoration_unrecorded(res, restoration_result) ==
    [returned |-> FALSE, results |-> res]

\* mutant: lines 128-137 recording the wrong agent
after_restoration_misnamed(res, restoration_result) ==
    LET r1 == Executed(SetKey(res, "restoration", restoration_result),
                       "HistoricalContextAgent")
    IN  IF Status(restoration_result) = "success"
        THEN [returned |-> FALSE,
              results |-> SetKey(r1, "restored_image",
                                 Get(restoration_result, "restored_image_base64", PyNone))]
        ELSE [returned |-> FALSE, results |-> r1]

\* mutant: lines 128-137 treating a failed restoration like the other stages
after_restoration_fatal(res, restoration_result) ==
    LET r1 == Executed(SetKey(res, "restoration", restoration_result),
                       "RestorationGenerationAgent")
    IN  IF Status(restoration_result) # "success"
        THEN [returned |-> TRUE,
              results |-> Fail(r1, "failed_at_restoration",
                               Get(restoration_result, "message", "Restoration failed"))]
        ELSE [returned |-> FALSE,
              results |-> SetKey(r1, "restored_image",
                                 Get(restoration_result, "restored_image_base64", PyNone))]

\* lines 128-137
after_restoration(res, restoration_result) ==
    LET r1 == Executed(SetKey(res, "restoration", restoration_result),
                       "RestorationGenerationAgent")
    IN  IF Status(restoration_result) = "success"
        THEN [returned |-> FALSE,
              results |-> SetKey(r1, "restored_image",
                                 Get(restoration_result, "restored_image_base64", PyNone))]
        ELSE [returned |-> FALSE, results |-> r1]

\* mutant: lines 146-153 without the return
after_historical_no_return(res, historical_result) ==
    LET r1 == Executed(SetKey(res, "historical_context", historical_result),
                       "HistoricalContextAgent")
    IN  IF Status(historical_result) # "success"
        THEN [returned |-> FALSE,
              results |-> Fail(r1, "failed_at_historical",
                               Get(historical_result, "message",
                                   "Historical context retrieval failed"))]
        ELSE [returned |-> FALSE, results |-> r1]

\* lines 146-153
after_historical(res, historical_result) ==
    LET r1 == Executed(SetKey(res, "historical_context", historical_result),
                       "HistoricalContextAgent")
    IN  IF Status(historical_result) # "success"
        THEN [returned |-> TRUE,
              results |-> Fail(r1, "failed_at_historical",
                               Get(historical_result, "message",
                                   "Historical context retrieval failed"))]
        ELSE [returned |-> FALSE, results |-> r1]

\* mutant: lines 165-195 without the check of the environmental result
after_environmental_unchecked(res, environmental_result, hist, ctx, outs) ==
    LET r1 == Executed(SetKey(res, "environmental_prediction", environmental_result),
                       "EnvironmentalPredictionAgent")
        r2 == SetKey(r1, "degradation_timeline",
                     Get(environmental_result, "degradation_timeline", <<>>))
        r3 == SetKey(r2, "workflow_status", "completed")
    IN  [returned |-> TRUE,
         results |-> SetKey(r3, "context_summary",
             [total_agents |-> Len(r3.agents_executed),
              context_items |-> Len(ctx),
              agent_outputs |-> Len(outs),
              conversation_length |-> Len(hist)])]

\* lines 165-195; hist, ctx, outs: the ContextManager's containers at that time
after_environmental(res, environmental_result, hist, ctx, outs) ==
    LET r1 == Executed(SetKey(res, "environmental_prediction", environmental_result),
                       "EnvironmentalPredictionAgent")
    IN  IF Status(environmental_result) # "success"
        THEN [returned |-> TRUE,
              results |-> Fail(r1, "failed_at_environmental",
                               Get(environmental_result, "message",
                                   "Environmental prediction failed"))]
        ELSE LET r2 == SetKey(r1, "degradation_timeline",
                              Get(environmental_result, "degradation_timeline", <<>>))
                 r3 == SetKey(r2, "workflow_status", "completed")
             IN  [returned |-> TRUE,
                  results |-> SetKey(r3, "context_summary",
                      [total_agents |-> Len(r3.agents_executed),
                       context_items |-> Len(ctx),
                       agent_outputs |-> Len(outs),
                       conversation_length |-> Len(hist)])]

(***************************************************************************)
(* Steps of a request thread r                                             *)
(***************************************************************************)
NoArgs == [image_path |-> "", restoration_level |-> "", time_span |-> 0]
NoResults == [workflow_status |-> "not started", agents_executed |-> <<>>]
NoFrame == [done |-> TRUE]

\* a handler that lets an exception escape yields it in place of a result
IsException(result) == "exception" \in DOMAIN result

Init ==
    /\ conversation_history = <<>>
    /\ artifact_context = <<>>
    /\ agent_outputs = <<>>
    /\ pc = [r \in Runs |-> "idle"]
    /\ args = [r \in Runs |-> NoArgs]
    /\ results = [r \in Runs |-> NoResults]
    /\ frame = [r \in Runs |-> NoFrame]

\* mutant: a stage that failed is called again
Resume_retry(r, result, o, next_stage) ==
    IF IsException(result)
    THEN /\ pc' = [pc EXCEPT ![r] = "raised"]
         /\ UNCHANGED results
    ELSE IF Get(result, "status", "") # "success"
    THEN /\ pc' = [pc EXCEPT ![r] = CASE pc[r] = "restoration_call" -> "restoration_enter"
                                      [] pc[r] = "historical_call" -> "historical_enter"
                                      [] pc[r] = "environmental_call" -> "environmental_enter"
                                      [] OTHER -> pc[r]]
         /\ UNCHANGED results
    ELSE /\ pc' = [pc EXCEPT ![r] = IF o.returned THEN "done" ELSE next_stage]
         /\ results' = [results EXCEPT ![r] = o.results]

\* the handler called by thread r has returned `result`; o is what the orchestrator
\* makes of it.  An exception leaves process_artifact (app.py:131 catches it)
Resume(r, result, o, next_stage) ==
    IF IsException(result)
    THEN /\ pc' = [pc EXCEPT ![r] = "raised"]
         /\ UNCHANGED results
    ELSE /\ pc' = [pc EXCEPT ![r] = IF o.returned THEN "done" ELSE next_stage]
         /\ results' = [results EXCEPT ![r] = o.results]

\* app.py:82 and adk_orchestrator.py:89-90: the request thread enters
\* process_artifact, which resets the shared context.  No lock is held: another
\* thread may run between any two statements, here between lines 90 and 91
Start(r) ==
    /\ pc[r] = "idle"
    /\ \E image_path \in Images, restoration_level \in Levels, time_span \in Spans :
          args' = [args EXCEPT ![r] = [image_path |-> image_path,
                                       restoration_level |-> restoration_level,
                                       time_span |-> time_span]]
    /\ LET c == clear(conversation_history, artifact_context, agent_outputs)
       IN  /\ conversation_history' = c.conversation_history
           /\ artifact_context' = c.artifact_context
           /\ agent_outputs' = c.agent_outputs
    /\ pc' = [pc EXCEPT ![r] = "workflow_start"]
    /\ UNCHANGED <<results, frame>>

\* lines 91-108: workflow_start, results, and the call of analyze, which blocks
\* in the vision tool
WorkflowStart(r) ==
    /\ pc[r] = "workflow_start"
    /\ artifact_context' = set_artifact_context(artifact_context, "workflow_start", PyTrue)
    /\ results' = [results EXCEPT
                     ![r] = results_init(args[r].image_path, args[r].restoration_level,
                                         args[r].time_span)]
    /\ pc' = [pc EXCEPT ![r] = "vision_call"]
    /\ UNCHANGED <<conversation_history, agent_outputs, args, frame>>

\* the vision tool answers; analyze finishes; lines 109-119
VisionReturn(r, tool) ==
    /\ pc[r] = "vision_call"
    /\ \E resp \in VisionResponses :
          LET a == analyze(artifact_context, agent_outputs, args[r].image_path,
                           CallVisionTool(tool, args[r].image_path, resp))
          IN  /\ artifact_context' = a.ctx
              /\ agent_outputs' = a.outs
              /\ Resume(r, a.result, after_vision(results[r], a.result), "restoration_enter")
    /\ UNCHANGED <<conversation_history, args, frame>>

\* line 127: generate_restoration up to the restoration tool, or to its early return
RestorationEnter(r) ==
    /\ pc[r] = "restoration_enter"
    /\ LET h == generate_restoration_enter(artifact_context, agent_outputs)
       IN  IF h.done
           THEN /\ Resume(r, h.result, after_restoration(results[r], h.result),
                          "historical_enter")
                /\ UNCHANGED frame
           ELSE /\ frame' = [frame EXCEPT ![r] = h]
                /\ pc' = [pc EXCEPT ![r] = "restoration_call"]
                /\ UNCHANGED results
    /\ UNCHANGED <<context, args>>

\* the restoration tool answers; generate_restoration finishes; lines 128-137
RestorationReturn(r) ==
    /\ pc[r] = "restoration_call"
    /\ \E env \in RestoreEnvs :
          LET h == generate_restoration_return(agent_outputs, frame[r],
                       restore_artifact_image(frame[r].image_path, args[r].restoration_level,
                                              frame[r].artifact_type, env))
          IN  /\ agent_outputs' = h.outs
              /\ Resume(r, h.result, after_restoration(results[r], h.result),
                        "historical_enter")
    /\ frame' = [frame EXCEPT ![r] = NoFrame]
    /\ UNCHANGED <<conversation_history, artifact_context, args>>

\* line 145: fetch_context up to runner.run, or to its early return; lines 146-153
HistoricalEnter(r) ==
    /\ pc[r] = "historical_enter"
    /\ LET h == fetch_context_enter(artifact_context, agent_outputs)
       IN  IF h.done
           THEN /\ Resume(r, h.result, after_historical(results[r], h.result),
                          "environmental_enter")
                /\ UNCHANGED frame
           ELSE /\ frame' = [frame EXCEPT ![r] = h]
                /\ pc' = [pc EXCEPT ![r] = "historical_call"]
                /\ UNCHANGED results
    /\ UNCHANGED <<context, args>>

\* the runner answers; fetch_context finishes; lines 146-156
HistoricalReturn(r) ==
    /\ pc[r] = "historical_call"
    /\ \E resp \in TextResponses :
          LET h == fetch_context_return(agent_outputs, frame[r], resp)
          IN  /\ agent_outputs' = h.outs
              /\ Resume(r, h.result, after_historical(results[r], h.result),
                        "environmental_enter")
    /\ frame' = [frame EXCEPT ![r] = NoFrame]
    /\ UNCHANGED <<conversation_history, artifact_context, args>>

\* line 164: predict_degradation up to runner.run, or to its early return; lines 165-172
EnvironmentalEnter(r) ==
    /\ pc[r] = "environmental_enter"
    /\ LET h == predict_degradation_enter(artifact_context, agent_outputs, args[r].time_span)
       IN  IF h.done
           THEN /\ Resume(r, h.result,
                          after_environmental(results[r], h.result, conversation_history,
                                              artifact_context, agent_outputs),
                          "done")
                /\ UNCHANGED frame
           ELSE /\ frame' = [frame EXCEPT ![r] = h]
                /\ pc' = [pc EXCEPT ![r] = "environmental_call"]
                /\ UNCHANGED results
    /\ UNCHANGED <<context, args>>

\* the runner answers; predict_degradation finishes; lines 165-195
EnvironmentalReturn(r) ==
    /\ pc[r] = "environmental_call"
    /\ \E resp \in TextResponses :
          LET h == predict_degradation_return(agent_outputs, frame[r], args[r].time_span, resp)
          IN  /\ agent_outputs' = h.outs
              /\ Resume(r, h.result,
                        after_environmental(results[r], h.result, conversation_history,
                                            artifact_context, h.outs),
                        "done")
    /\ frame' = [frame EXCEPT ![r] = NoFrame]
    /\ UNCHANGED <<conversation_history, artifact_context, args>>

\* app.py:84-130: the route builds its response from the returned results and
\* ends; the thread serves a next request
Respond(r) ==
    /\ pc[r] = "done"
    /\ pc' = [pc EXCEPT ![r] = "idle"]
    /\ args' = [args EXCEPT ![r] = NoArgs]
    /\ results' = [results EXCEPT ![r] = NoResults]
    /\ UNCHANGED <<context, frame>>

\* the stages after Vision
LaterStages(r) ==
    \/ RestorationEnter(r)
    \/ RestorationReturn(r)
    \/ HistoricalEnter(r)
    \/ HistoricalReturn(r)
    \/ EnvironmentalEnter(r)
    \/ EnvironmentalReturn(r)

\* no other request is inside process_artifact
Alone(r) == \A q \in Runs \ {r} : pc[q] \in {"idle", "done", "raised"}
\* the requests that overlap in SpecDouble
Overlapping == {1, 2}
\* threads are numbered in the order in which their requests arrive
InOrder(r) == IF r = 1 THEN TRUE ELSE pc[r - 1] # "idle"

(***************************************************************************)
(* A client of the ContextManager alone: any sequence of its calls         *)
(***************************************************************************)
StageIds == {"vision", "restoration", "historical", "environmental"}
SampleOutputs == {[status |-> "success", note |-> "first"],
                  [status |-> "success", note |-> "second"],
                  ErrorResult("quota exceeded")}
SampleFacts == {[k |-> "image_path", v |-> Str("a.jpg")],
                [k |-> "image_path", v |-> Str("b.jpg")],
                [k |-> "workflow_start", v |-> PyTrue]}

CallStore ==
    /\ \E agent_name \in StageIds, output \in SampleOutputs :
          agent_outputs' = store_agent_output(agent_outputs, agent_name, output)
    /\ UNCHANGED <<conversation_history, artifact_context, pc, args, results, frame>>

CallSetFact ==
    /\ \E f \in SampleFacts :
          artifact_context' = set_artifact_context(artifact_context, f.k, f.v)
    /\ UNCHANGED <<conversation_history, agent_outputs, pc, args, results, frame>>

CallClear ==
    /\ LET c == clear(conversation_history, artifact_context, agent_outputs)
       IN  /\ conversation_history' = c.conversation_history
           /\ artifact_context' = c.artifact_context
           /\ agent_outputs' = c.agent_outputs
    /\ UNCHANGED <<pc, args, results, frame>>

\* the client calls build_context_prompt(current_agent) and keeps the returned
\* text in a local; the method reads the two dicts and writes nothing
CallBuild ==
    /\ \E current_agent \in StageIds :
          frame' = [frame EXCEPT
                      ![1] = [done |-> FALSE, current_agent |-> current_agent,
                              context_prompt |->
                                  build_context_prompt(artifact_context, agent_outputs,
                                                       current_agent)]]
    /\ UNCHANGED <<context, pc, args, results>>

\* the client is done with the text
DropPrompt ==
    /\ frame[1] # NoFrame
    /\ frame' = [frame EXCEPT ![1] = NoFrame]
    /\ UNCHANGED <<context, pc, args, results>>

(***************************************************************************)
(* Specifications                                                          *)
(*  Spec       the service as shipped: request threads that may overlap,   *)
(*             the vision tool of tools/restoration_tools.py               *)
(*  SpecDouble two overlapping requests, with the vision tool replaced by  *)
(*             a double that returns the model's text                      *)
(*  SpecSeq    as SpecDouble, requests served one after the other          *)
(*  SpecShippedSeq  as Spec, any number of requests served one after the  *)
(*             other                                                       *)
(*  SpecCtx    the ContextManager under any sequence of calls              *)
(***************************************************************************)
Next == \E r \in Runs : Start(r) \/ WorkflowStart(r) \/ VisionReturn(r, "shipped")
Spec == Init /\ [][Next]_vars

NextDouble ==
    \E r \in Runs :
        \/ (r \in Overlapping /\ InOrder(r) /\ Start(r))
        \/ WorkflowStart(r)
        \/ VisionReturn(r, "double")
        \/ LaterStages(r)
SpecDouble == Init /\ [][NextDouble]_vars

\* requests for one image served one after the other, every request thread
\* going on whenever it can: the thread is scheduled, and the capability call
\* it waits for returns or errors
Progress(r) == WorkflowStart(r) \/ VisionReturn(r, "double") \/ LaterStages(r)
NextLive ==
    \E r \in Runs :
        \/ (Alone(r) /\ Start(r) /\ args'[r].image_path = "a.jpg")
        \/ Progress(r)
SpecLive == Init /\ [][NextLive]_vars /\ \A r \in Runs : WF_vars(Progress(r))

NextSeq ==
    \E r \in Runs :
        \/ (Alone(r) /\ Start(r))
        \/ WorkflowStart(r)
        \/ VisionReturn(r, "double")
        \/ LaterStages(r)
SpecSeq == Init /\ [][NextSeq]_vars

\* as SpecSeq, each thread serving one request after another
NextServe ==
    \E r \in Runs :
        \/ (Alone(r) /\ Start(r))
        \/ WorkflowStart(r)
        \/ VisionReturn(r, "double")
        \/ LaterStages(r)
        \/ Respond(r)
SpecServe == Init /\ [][NextServe]_vars

NextShippedSeq ==
    \E r \in Runs :
        \/ (Alone(r) /\ Start(r))
        \/ WorkflowStart(r)
        \/ VisionReturn(r, "shipped")
        \/ Respond(r)
SpecShippedSeq == Init /\ [][NextShippedSeq]_vars

NextCtx == CallStore \/ CallSetFact \/ CallClear
SpecCtx == Init /\ [][NextCtx]_vars

\* the ContextManager under any sequence of calls, build_context_prompt among
\* them: the client writes only while it holds no summary
NextPrompt == (frame[1] = NoFrame /\ NextCtx) \/ CallBuild \/ DropPrompt
SpecPrompt == Init /\ [][NextPrompt]_vars

(***************************************************************************)
(* Vocabulary of the properties                                            *)
(***************************************************************************)
StageOrder == <<"VisionAnalysisAgent", "RestorationGenerationAgent",
                "HistoricalContextAgent", "EnvironmentalPredictionAgent">>
IsPrefix(s, t) == Len(s) <= Len(t) /\ \A i \in 1..Len(s) : s[i] = t[i]
\* the key of results under which process_artifact keeps a stage's result
ResultKey ==
    [vision |-> "vision_analysis", restoration |-> "restoration",
     historical |-> "historical_context", environmental |-> "environmental_prediction"]
Invoked(r, stage) == ResultKey[stage] \in DOMAIN results[r]
Succeeded(r, stage) == Invoked(r, stage) /\ Status(results[r][ResultKey[stage]]) = "success"
Errored(r, stage) == Invoked(r, stage) /\ Status(results[r][ResultKey[stage]]) # "success"
Returned_(r) == pc[r] = "done"
StatusOf(r) == results[r].workflow_status
ExecutedStages(r) == results[r].agents_executed
Last(s) == s[Len(s)]

(***************************************************************************)
(* The stage handlers called one by one on a ContextManager, as a client   *)
(* of agents/sequential_agents.py calls them (thread 1): any handler in    *)
(* any order, on whatever the context holds by then, each at most once     *)
(* between two clear() calls.  results[1] keeps the result of the last     *)
(* handler that returned.                                                  *)
(***************************************************************************)
\* a Vision output with status success, as analyze stores it for TextSculpture
VisionSuccess == analyze_parsed(<<>>, <<>>, "a.jpg", [text |-> TextSculpture]).result

HandlerReturns(stage, result) ==
    results' = [results EXCEPT ![1] = SetKey(NoResults, ResultKey[stage], result)]

\* context_manager.store_agent_output("vision", <a successful analysis>)
AgentPrepareVision ==
    /\ pc[1] = "idle" /\ ~DictHas(agent_outputs, "vision")
    /\ agent_outputs' = store_agent_output(agent_outputs, "vision", VisionSuccess)
    /\ UNCHANGED <<conversation_history, artifact_context, pc, args, results, frame>>

\* context_manager.set_artifact_context("image_path", <path>)
AgentSetImagePath ==
    /\ pc[1] = "idle"
    /\ \E image_path \in Images :
          artifact_context' = set_artifact_context(artifact_context, "image_path",
                                                   Str(image_path))
    /\ UNCHANGED <<conversation_history, agent_outputs, pc, args, results, frame>>

\* context_manager.clear(), with which the client starts afresh
AgentClear ==
    /\ pc[1] = "idle"
    /\ LET c == clear(conversation_history, artifact_context, agent_outputs)
       IN  /\ conversation_history' = c.conversation_history
           /\ artifact_context' = c.artifact_context
           /\ agent_outputs' = c.agent_outputs
    /\ results' = [results EXCEPT ![1] = NoResults]
    /\ UNCHANGED <<pc, args, frame>>

\* VisionAnalysisAgent.analyze(image_path), with the vision tool as shipped
AgentAnalyze ==
    /\ pc[1] = "idle" /\ ~DictHas(agent_outputs, "vision")
    /\ \E image_path \in {"a.jpg"}, resp \in VisionResponses :
          LET a == analyze(artifact_context, agent_outputs, image_path,
                           CallVisionTool("shipped", image_path, resp))
          IN  /\ artifact_context' = a.ctx
              /\ agent_outputs' = a.outs
              /\ HandlerReturns("vision", a.result)
    /\ UNCHANGED <<conversation_history, pc, args, frame>>

\* RestorationGenerationAgent.generate_restoration(restoration_level)
AgentGenerateRestoration ==
    /\ pc[1] = "idle" /\ ~DictHas(agent_outputs, "restoration")
    /\ LET h == generate_restoration_enter(artifact_context, agent_outputs)
       IN  IF h.done
           THEN HandlerReturns("restoration", h.result) /\ UNCHANGED <<pc, frame>>
           ELSE /\ frame' = [frame EXCEPT ![1] = h]
                /\ pc' = [pc EXCEPT ![1] = "restoration_call"]
                /\ UNCHANGED results
    /\ UNCHANGED <<context, args>>

AgentGenerateRestorationReturn ==
    /\ pc[1] = "restoration_call"
    /\ \E env \in RestoreEnvs, restoration_level \in Levels :
          LET h == generate_restoration_return(agent_outputs, frame[1],
                       restore_artifact_image(frame[1].image_path, restoration_level,
                                              frame[1].artifact_type, env))
          IN  agent_outputs' = h.outs /\ HandlerReturns("restoration", h.result)
    /\ pc' = [pc EXCEPT ![1] = "idle"]
    /\ frame' = [frame EXCEPT ![1] = NoFrame]
    /\ UNCHANGED <<conversation_history, artifact_context, args>>

\* HistoricalContextAgent.fetch_context()
AgentFetchContext ==
    /\ pc[1] = "idle" /\ ~DictHas(agent_outputs, "historical")
    /\ LET h == fetch_context_enter(artifact_context, agent_outputs)
       IN  IF h.done
           THEN HandlerReturns("historical", h.result) /\ UNCHANGED <<pc, frame>>
           ELSE /\ frame' = [frame EXCEPT ![1] = h]
                /\ pc' = [pc EXCEPT ![1] = "historical_call"]
                /\ UNCHANGED results
    /\ UNCHANGED <<context, args>>

AgentFetchContextReturn ==
    /\ pc[1] = "historical_call"
    /\ \E resp \in TextResponses :
          LET h == fetch_context_return(agent_outputs, frame[1], resp)
          IN  agent_outputs' = h.outs /\ HandlerReturns("historical", h.result)
    /\ pc' = [pc EXCEPT ![1] = "idle"]
    /\ frame' = [frame EXCEPT ![1] = NoFrame]
    /\ UNCHANGED <<conversation_history, artifact_context, args>>

\* EnvironmentalPredictionAgent.predict_degradation(years)
AgentPredictDegradation ==
    /\ pc[1] = "idle" /\ ~DictHas(agent_outputs, "environmental")
    /\ \E years \in Spans :
          LET h == predict_degradation_enter(artifact_context, agent_outputs, years)
          IN  IF h.done
              THEN HandlerReturns("environmental", h.result) /\ UNCHANGED <<pc, frame>>
              ELSE /\ frame' = [frame EXCEPT ![1] = h]
                   /\ pc' = [pc EXCEPT ![1] = "environmental_call"]
                   /\ UNCHANGED results
    /\ UNCHANGED <<context, args>>

AgentPredictDegradationReturn ==
    /\ pc[1] = "environmental_call"
    /\ \E resp \in TextResponses :
          LET h == predict_degradation_return(agent_outputs, frame[1],
                                              frame[1].prompt.years, resp)
          IN  agent_outputs' = h.outs /\ HandlerReturns("environmental", h.result)
    /\ pc' = [pc EXCEPT ![1] = "idle"]
    /\ frame' = [frame EXCEPT ![1] = NoFrame]
    /\ UNCHANGED <<conversation_history, artifact_context, args>>

NextAgents ==
    \/ AgentPrepareVision
    \/ AgentSetImagePath
    \/ AgentClear
    \/ AgentAnalyze
    \/ AgentGenerateRestoration
    \/ AgentGenerateRestorationReturn
    \/ AgentFetchContext
    \/ AgentFetchContextReturn
    \/ AgentPredictDegradation
    \/ AgentPredictDegradationReturn
SpecAgents == Init /\ [][NextAgents]_vars

(***************************************************************************)
(* The facts of the ContextManager under any sequence of writes, reads     *)
(* and resets; the client keeps what a read returned in a local             *)
(***************************************************************************)
FactKeys == {"", "image_path", "workflow_start"}
FactValues == {Str("a.jpg"), PyTrue}

\* set_artifact_context(key, value)
FactSet ==
    /\ frame[1] = NoFrame
    /\ \E key \in FactKeys, value \in FactValues :
          artifact_context' = set_artifact_context(artifact_context, key, value)
    /\ UNCHANGED <<conversation_history, agent_outputs, pc, args, results, frame>>

\* value = get_artifact_context(key)
FactGet ==
    /\ \E key \in FactKeys :
          frame' = [frame EXCEPT
                      ![1] = [done |-> FALSE, key |-> key,
                              value |-> get_artifact_context(artifact_context, key)]]
    /\ UNCHANGED <<context, pc, args, results>>

NextFacts == FactSet \/ FactGet \/ DropPrompt \/ (frame[1] = NoFrame /\ CallClear)
SpecFacts == Init /\ [][NextFacts]_vars

(***************************************************************************)
(* The degradation tool called on its own, as test_adk_setup.py does       *)
(***************************************************************************)
Materials == {"paper", "canvas", "wood", "textile", "stone", "metal", "ceramic", "glass",
              "Stone", "Paper", "marble", "unknown"}
Years == {0, 1, 5, 10, 12, 20, 23, 30, 50, 100}

\* result = predict_degradation(material, years)
CallPredictDegradation ==
    /\ \E material \in Materials, years \in Years :
          frame' = [frame EXCEPT
                      ![1] = [done |-> FALSE,
                              degradation_data |-> predict_degradation(material, years)]]
    /\ UNCHANGED <<context, pc, args, results>>

NextTool == CallPredictDegradation
SpecTool == Init /\ [][NextTool]_vars

(***************************************************************************)
(* Properties                                                              *)
(***************************************************************************)

C2_VisionFailureStops ==
    \A r \in Runs :
        Errored(r, "vision") =>
            /\ Returned_(r)
            /\ StatusOf(r) = "failed_at_vision"
            /\ ExecutedStages(r) = <<"VisionAnalysisAgent">>
            /\ ~Invoked(r, "restoration") /\ ~Invoked(r, "historical")
            /\ ~Invoked(r, "environmental")
            /\ frame[r] = NoFrame
            /\ "error" \in DOMAIN results[r]

\* a run whose Vision stage failed on the tool's answer
C2_Witness ==
    \E r \in Runs :
        /\ Errored(r, "vision")
        /\ results[r].error = "'dict' object has no attribute 'split'"

StatusByStages(r) ==
    IF ~Succeeded(r, "vision") THEN "failed_at_vision"
    ELSE IF ~Succeeded(r, "historical") THEN "failed_at_historical"
    ELSE IF ~Succeeded(r, "environmental") THEN "failed_at_environmental"
    ELSE "completed"
AgentOfStatus ==
    [failed_at_vision |-> "VisionAnalysisAgent",
     failed_at_historical |-> "HistoricalContextAgent",
     failed_at_environmental |-> "EnvironmentalPredictionAgent",
     completed |-> "EnvironmentalPredictionAgent"]

WorkflowStatuses ==
    {"completed", "failed_at_vision", "failed_at_historical", "failed_at_environmental"}

C8_NoCrossRunInterference ==
    \A r \in Runs :
        pc[r] = "vision_call" => DictHas(artifact_context, "workflow_start")

\* C9: of two runs served one after the other, the second, from its reset to
\* the return of its Vision stage, finds in the context no stage output, no
\* message and no fact but the workflow_start it wrote itself.
C9_ResetLeavesNoResidue ==
    \A r \in Runs :
        /\ pc[r] = "workflow_start" =>
              /\ artifact_context = <<>>
              /\ agent_outputs = <<>>
              /\ conversation_history = <<>>
        /\ pc[r] = "vision_call" =>
              /\ artifact_context = <<[k |-> "workflow_start", v |-> PyTrue]>>
              /\ agent_outputs = <<>>
              /\ conversation_history = <<>>

\* the second run is in its Vision call after the first has returned, having
\* left facts and an output in the context
C9_Witness ==
    \E r, q \in Runs :
        /\ pc[r] = "vision_call"
        /\ Returned_(q) /\ Errored(q, "vision")
        /\ args[q].image_path # args[r].image_path

\* C10: store_agent_output for a stage that already has an entry leaves the
\* stored entry unchanged (the call fails with DuplicateStageWrite): an entry
\* that is present before and after a step is the same entry.
C10_DuplicateWriteRejected ==
    [][\A a \in StageIds :
          (DictHas(agent_outputs, a) /\ DictHas(agent_outputs', a)) =>
              DictGet(agent_outputs', a) = DictGet(agent_outputs, a)
      ]_vars

\* the step is the reset with which a run begins (adk_orchestrator.py:90)
IsReset == \E r \in Runs : pc[r] = "idle" /\ pc'[r] = "workflow_start"

C12_SummaryIsPure ==
    [][(frame'[1] # frame[1] /\ frame'[1] # NoFrame) =>
          /\ context' = context
          /\ \A a \in StageIds :
                frame'[1].context_prompt =
                    build_context_prompt(artifact_context', agent_outputs', a)
          /\ frame[1] # NoFrame => frame'[1].context_prompt = frame[1].context_prompt
      ]_vars

\* a summary built for the Historical stage while the context holds a fact and
\* the outputs of Vision and of Historical itself
C12_Witness ==
    /\ frame[1] # NoFrame
    /\ frame[1].current_agent = "historical"
    /\ artifact_context # <<>>
    /\ {"vision", "historical"} \subseteq DictKeys(agent_outputs)
    /\ Len(frame[1].context_prompt) = Len(artifact_context) + Len(agent_outputs) + 4

\* C13: a stage whose capability call fails with a provider error returns
\* status error with a message that carries the provider's message.  For the
\* Vision stage: in the step in which the vision tool answers run r with the
\* provider's error e (the tool's answer is the fact `identification`), the
\* result of the stage has status error and its message is e, or e behind the
\* tool's prefix.
C13_ProviderErrorInMessage ==
    [][\A r \in Runs : \A e \in ProviderErrors :
          ( /\ pc[r] = "vision_call" /\ pc'[r] # "vision_call"
            /\ get_artifact_context(artifact_context', "identification")
                   = identify_artifact_with_vision(args[r].image_path, [ok |-> FALSE, e |-> e]) )
          => /\ Status(results'[r].vision_analysis) = "error"
             /\ results'[r].vision_analysis.message
                    \in {e, "Vision identification failed: " \o e}
      ]_vars

\* the environments in which the image comes from the generation model, and
\* those in which the tool falls back to the local enhancement
GenerationEnvs ==
    {env \in RestoreEnvs : env.exists /\ env.analysis_ok /\ env.openai /\ env.dalle_ok}
FallbackEnvs ==
    {env \in RestoreEnvs : env.exists /\ env.analysis_ok /\ ~(env.openai /\ env.dalle_ok)}
\* the method tag of the Restoration result that run r, blocked in the tool,
\* stores and returns when the tool runs in env
MethodTag(r, level, env) ==
    generate_restoration_return(agent_outputs, frame[r],
        restore_artifact_image(frame[r].image_path, level, frame[r].artifact_type, env)
    ).result.restoration_method

\* C14: whenever the Restoration handler is blocked in the tool on an image,
\* the method tag of the result it records and returns if the tool falls back
\* to the local enhancement differs from the tag it records and returns if
\* the image-generation model produces the image.
C14_FallbackTagDiffers ==
    \A r \in Runs : \A level \in Levels :
        (pc[r] = "restoration_call" /\ frame[r].image_path # PyNone) =>
            \A g \in GenerationEnvs, f \in FallbackEnvs :
                MethodTag(r, level, f) # MethodTag(r, level, g)

\* the stage's dependency is not met: no output of `stage` in the context, or
\* one whose status is not success
Unmet(stage) ==
    LET output == get_agent_output(agent_outputs, stage)
    IN  output = PyNone \/ Status(output) # "success"
\* the step is a handler call of thread r that returned result for `stage`
ReturnsAtOnce(r, stage, result) ==
    /\ pc'[r] = pc[r]
    /\ Invoked(r, stage)'
    /\ results'[r][ResultKey[stage]] = result
    /\ context' = context /\ frame' = frame

\* C15: while the context holds no Vision output, or one whose status is not
\* success, no step takes the client into the restoration tool, and a call of
\* generate_restoration returns at once {status: error, message: "Vision
\* analysis required before restoration"}, leaving the context as it was.
C15_RestorationNeedsVision ==
    [][(pc[1] = "idle" /\ Unmet("vision")) =>
          /\ pc'[1] # "restoration_call"
          /\ (Invoked(1, "restoration")' /\ results' # results) =>
                ReturnsAtOnce(1, "restoration",
                              ErrorResult("Vision analysis required before restoration"))
      ]_vars

\* generate_restoration has returned the missing-dependency error on a context
\* whose Vision output is an error result
C15_Witness ==
    /\ Invoked(1, "restoration")
    /\ results[1].restoration = ErrorResult("Vision analysis required before restoration")
    /\ DictHas(agent_outputs, "vision")
    /\ Status(get_agent_output(agent_outputs, "vision")) = "error"

\* the step is a handler call of thread r that returned an error for `stage`
\* and left the context alone
ReturnsError(r, stage) ==
    /\ pc'[r] = pc[r]
    /\ Errored(r, stage)'
    /\ "message" \in DOMAIN results'[r][ResultKey[stage]]
    /\ context' = context /\ frame' = frame

\* C16: while the context holds no Vision output, or one whose status is not
\* success (a stored error result included), no step takes the client into
\* the text capability for the Historical stage, and a call of fetch_context
\* returns at once a result with status error and a message.
C16_HistoricalNeedsVision ==
    [][(pc[1] = "idle" /\ Unmet("vision")) =>
          /\ pc'[1] # "historical_call"
          /\ (Invoked(1, "historical")' /\ results' # results) =>
                ReturnsError(1, "historical")
      ]_vars

\* C17: unless the context holds a Vision output and a Historical output, both
\* with status success, no step takes the client into the text capability for
\* the Environmental stage (nor, behind it, into the degradation calculation),
\* and a call of predict_degradation returns at once a result with status
\* error and a message.
C17_EnvironmentalNeedsBoth ==
    [][(pc[1] = "idle" /\ (Unmet("vision") \/ Unmet("historical"))) =>
          /\ pc'[1] # "environmental_call"
          /\ (Invoked(1, "environmental")' /\ results' # results) =>
                ReturnsError(1, "environmental")
      ]_vars

\* the summary `text` has the part that build_context_prompt writes for the
\* output of `stage`, and that part is the whole result run r got from the stage
Reflects(text, r, stage) ==
    \E i \in 1..Len(text) :
        text[i] = [part |-> "output", agent |-> stage,
                   output |-> results[r][ResultKey[stage]]]

SculptureIdentified ==
    get_artifact_context(artifact_context, "identification")
        \in {identify_artifact_with_vision(image_path, [ok |-> TRUE, text |-> TextSculpture]) :
                image_path \in Images}
            \cup {[text |-> TextSculpture]}
\* no stage of run r reports a provider's error
NoProviderError(r) ==
    \A stage \in DOMAIN ResultKey :
        Invoked(r, stage) =>
            Get(results[r][ResultKey[stage]], "message", "") \notin ProviderErrors

\* C19: end to end.  In the step in which process_artifact returns for a run
\* with time_span 20 whose vision provider answered TYPE: sculpture,
\* MATERIALS: stone and none of whose capabilities failed, the run returns
\* status completed with four executed stages, and its Environmental result
\* carries degradation 16.0 per cent (160 tenths) in the band Good.
C19_EndToEnd ==
    [][\A r \in Runs :
          ( /\ pc[r] # "done" /\ pc'[r] = "done"
            /\ args[r].time_span = 20
            /\ SculptureIdentified'
            /\ NoProviderError(r)' )
          => /\ StatusOf(r)' = "completed"
             /\ Len(ExecutedStages(r)') = 4
             /\ results'[r].environmental_prediction.chart_data.degradation_percentage = 160
             /\ results'[r].environmental_prediction.chart_data.condition
                    = "Good - Minor surface wear"
      ]_vars

\* the rate of the table for a material name, in tenths of a per cent a year,
\* the name being looked up whatever its case; 3.0 for any other name
TableRate10(material) ==
    CASE material \in {"paper", "Paper"} -> 45
      [] material = "canvas" -> 35
      [] material = "wood" -> 28
      [] material = "textile" -> 40
      [] material \in {"stone", "Stone"} -> 8
      [] material = "metal" -> 15
      [] material = "ceramic" -> 10
      [] material = "glass" -> 5
      [] OTHER -> 30

\* C20: the degradation tool returns percentage = min(rate * years, 100),
\* rate being the table's entry for the material and 3.0 for a material the
\* table does not have; (stone, 50) gives 40 and (paper, 30) gives 100.
\* Percentages are in tenths of a per cent.
C20_DegradationFormula ==
    (frame[1] # NoFrame /\ "degradation_data" \in DOMAIN frame[1]) =>
        LET d == frame[1].degradation_data
            linear == TableRate10(d.material) * d.years
        IN  /\ d.degradation_percentage = IF linear <= 1000 THEN linear ELSE 1000
            /\ (d.material = "stone" /\ d.years = 50) => d.degradation_percentage = 400
            /\ (d.material = "paper" /\ d.years = 30) => d.degradation_percentage = 1000
            /\ (d.material = "marble" /\ d.years = 10) => d.degradation_percentage = 300

\* the tool has answered (paper, 30), where the cap applies
C20_Witness ==
    /\ frame[1] # NoFrame /\ "degradation_data" \in DOMAIN frame[1]
    /\ frame[1].degradation_data.material = "paper"
    /\ frame[1].degradation_data.years = 30
    /\ frame[1].degradation_data.degradation_percentage = 1000

\* the band a condition text names (its first word)
BandOf(condition) ==
    CASE condition = "Excellent - Minimal changes" -> "Excellent"
      [] condition = "Good - Minor surface wear" -> "Good"
      [] condition = "Fair - Noticeable degradation, some detail loss" -> "Fair"
      [] condition = "Poor - Significant deterioration" -> "Poor"
      [] condition = "Critical - Severe damage, major restoration required" -> "Critical"
      [] OTHER -> "none"
\* the band of a percentage given in tenths of a per cent
BandByThresholds(p10) ==
    IF p10 < 100 THEN "Excellent"
    ELSE IF p10 < 250 THEN "Good"
    ELSE IF p10 < 500 THEN "Fair"
    ELSE IF p10 < 750 THEN "Poor"
    ELSE "Critical"

\* C21: the degradation tool puts the percentage it returns, which lies in
\* 0..100, in the one band the thresholds give: Excellent below 10, Good below
\* 25, Fair below 50, Poor below 75, Critical from 75 on; 10, 25, 50 and 75
\* themselves fall in the higher band.
C21_BandByThresholds ==
    (frame[1] # NoFrame /\ "degradation_data" \in DOMAIN frame[1]) =>
        LET d == frame[1].degradation_data
        IN  /\ d.degradation_percentage \in 0..1000
            /\ BandOf(d.condition) = BandByThresholds(d.degradation_percentage)
            /\ d.degradation_percentage = 100 => BandOf(d.condition) = "Good"
            /\ d.degradation_percentage = 250 => BandOf(d.condition) = "Fair"
            /\ d.degradation_percentage = 500 => BandOf(d.condition) = "Poor"
            /\ d.degradation_percentage = 750 => BandOf(d.condition) = "Critical"

\* the tool has answered (metal, 50): 75.0 per cent, on the limit of Critical
C21_Witness ==
    /\ frame[1] # NoFrame /\ "degradation_data" \in DOMAIN frame[1]
    /\ frame[1].degradation_data.material = "metal"
    /\ frame[1].degradation_data.degradation_percentage = 750
    /\ BandOf(frame[1].degradation_data.condition) = "Critical"

\* what the capabilities answered run r, as far as its results tell: the
\* vision provider's text or error, and for each of the two runner calls
\* whether it answered or which error it raised (the runner's text is a
\* function of the prompt; the Restoration result does not depend on what the
\* restoration tool answers)
VisionResponseOf(r) ==
    IF "raw_analysis" \in DOMAIN results[r].vision_analysis
    THEN results[r].vision_analysis.raw_analysis
    ELSE [e |-> results[r].vision_analysis.message]
RunnerResponseOf(r, stage) ==
    IF ~Invoked(r, stage) THEN "not called"
    ELSE IF Status(results[r][ResultKey[stage]]) = "success" THEN "answered"
    ELSE results[r][ResultKey[stage]].message
SameResponses(r, q) ==
    /\ VisionResponseOf(r) = VisionResponseOf(q)
    /\ \A stage \in {"historical", "environmental"} :
          (Invoked(r, stage) /\ Invoked(q, stage)) =>
              RunnerResponseOf(r, stage) = RunnerResponseOf(q, stage)

C23_GetReturnsLastWrite ==
    (frame[1] # NoFrame /\ "key" \in DOMAIN frame[1]) =>
        frame[1].value =
            IF DictHas(artifact_context, frame[1].key)
            THEN DictGet(artifact_context, frame[1].key)
            ELSE PyNone

WellFormedStageResult(result) ==
    /\ Status(result) \in {"success", "error"}
    /\ ("message" \in DOMAIN result) <=> (Status(result) = "error")

AnsweredText(ctx) ==
    LET identification == get_artifact_context(ctx, "identification")
    IN  IF IsText(identification) THEN <<identification.text>>
        ELSE IF "identification" \in DOMAIN identification
        THEN <<identification.identification.text>>
        ELSE <<>>
\* the text has a line KEY: value whose key gives the field
HasField(text, field) ==
    \E i \in 1..Len(text) : HasColon(text[i]) /\ NormKey(text[i].key) = field

\* C26: the parse of the vision model's text is best-effort.  In the step in
\* which the vision provider answers run r with a text, whatever its lines,
\* the Vision stage returns status success, and its result has the fields
\* type and materials exactly when the text has lines for them.
C26_BestEffortParse ==
    [][\A r \in Runs :
          ( /\ pc[r] = "vision_call" /\ pc'[r] # "vision_call"
            /\ AnsweredText(artifact_context') # <<>> )
          => /\ Succeeded(r, "vision")'
             /\ \A field \in {"type", "materials"} :
                   (field \in DOMAIN results'[r].vision_analysis)
                       <=> HasField(AnsweredText(artifact_context')[1], field)
      ]_vars

\* C27: the Vision stage writes its facts (image_path, identification) only
\* on success: in the step in which the Vision stage of a run returns a result
\* whose status is not success, the facts are what they were when the stage
\* started.
C27_VisionErrorWritesNoFact ==
    [][\A r \in Runs :
          ( /\ pc[r] = "vision_call" /\ pc'[r] # "vision_call"
            /\ Errored(r, "vision")' )
          => artifact_context' = artifact_context
      ]_vars

\* C28: when Restoration succeeded, the restored image its stage result
\* carries is an image (never absent, never empty), and the WorkflowResult of
\* a returned run carries the same image as restored_image.
C28_RestoredImagePresent ==
    \A r \in Runs :
        Succeeded(r, "restoration") =>
            LET result == results[r][ResultKey["restoration"]]
            IN  /\ result.restored_image_base64 \notin {PyNone, Str("")}
                /\ Returned_(r) =>
                       Get(results[r], "restored_image", PyNone)
                           = result.restored_image_base64

\* what the restoration tool reports to run r, blocked in it, when it runs in env
ToolReport(r, level, env) ==
    restore_artifact_image(frame[r].image_path, level, frame[r].artifact_type, env)

\* C29: whenever the Restoration handler is blocked in the restoration tool,
\* the result it records and returns has status success only if the tool
\* reports success: in every environment in which the tool reports an error
\* (image file not found, analysis model failure) the result is an error.
C29_SuccessOnlyIfToolSucceeded ==
    \A r \in Runs : \A level \in Levels : \A env \in RestoreEnvs :
        (pc[r] = "restoration_call" /\ Status(ToolReport(r, level, env)) # "success") =>
            Status(generate_restoration_return(agent_outputs, frame[r],
                                               ToolReport(r, level, env)).result)
                # "success"

\* the texts with none of the words of a keyword search for a type (sculpt,
\* statue, monument, paint, pottery, ceramic)
NoKeywordTexts == {TextPlain}

StagePoints ==
    [vision |-> {"vision_call"},
     restoration |-> {"restoration_enter", "restoration_call"},
     historical |-> {"historical_enter", "historical_call"},
     environmental |-> {"environmental_enter", "environmental_call"}]
StageSeq == <<"vision", "restoration", "historical", "environmental">>
CallPoints == {"vision_call", "restoration_call", "historical_call", "environmental_call"}
Begun(r, stage) == pc[r] \in StagePoints[stage] \/ Invoked(r, stage)
\* the capability calls of run r that have not returned yet
OutstandingCalls(r) ==
    {stage \in DOMAIN StagePoints :
        pc[r] \in StagePoints[stage] \cap CallPoints /\ ~Invoked(r, stage)}

FinalStatuses ==
    {"completed", "failed_at_vision", "failed_at_historical", "failed_at_environmental"}
NoDuplicates(seq) == \A i, j \in 1..Len(seq) : seq[i] = seq[j] => i = j
\* process_artifact has returned to run r a final status, after at most four
\* stage invocations, no stage twice
Terminated(r) ==
    /\ Returned_(r)
    /\ StatusOf(r) \in FinalStatuses
    /\ Len(ExecutedStages(r)) <= 4
    /\ NoDuplicates(ExecutedStages(r))

legacy_artifact_type(artifact_info) ==
    LET lines == artifact_info.text
        typed == {i \in 1..Len(lines) :
                     HasColon(lines[i]) /\ NormKey(lines[i].key) = "type"}
    IN  IF typed # {}
        THEN LET type_text == Strip(lines[CHOOSE i \in typed : \A j \in typed : i <= j].value)
             IN  CASE type_text = "sculpture" -> "sculpture"
                   [] type_text = "pottery" -> "pottery"
                   [] OTHER -> type_text
        ELSE IF \E i \in 1..Len(lines) :
                   ~HasColon(lines[i]) /\ lines[i].plain = "a marble statue"
        THEN "sculpture"
        ELSE "unknown"

\* RestorationAgent.analyze_and_restore: the vision tool, the restoration tool,
\* then the analysis model (gresp)
analyze_and_restore(image_path, vresp, env, gresp) ==
    LET identification == identify_artifact_with_vision(image_path, vresp)
        artifact_info == Get(identification, "identification", [text |-> <<>>])
        artifact_type == legacy_artifact_type(artifact_info)
        restoration_result ==
            restore_artifact_image(Str(image_path), "medium", artifact_type, env)
    IN  IF Status(restoration_result) # "success"
        THEN ErrorResult(Get(restoration_result, "error_message", "Restoration failed"))
        ELSE IF ~gresp.ok
        THEN ErrorResult("Analysis failed: " \o gresp.e)
        ELSE [status |-> "success",
              restored_image_base64 |-> Get(restoration_result, "restored_image_base64", PyNone),
              restoration_level |-> Get(restoration_result, "restoration_level", PyNone),
              artifact_type |-> artifact_type,
              artifact_identification |-> artifact_info,
              analysis |-> [reply_to |-> artifact_info],
              image_path |-> image_path]

\* DataFetcherAgent.fetch_context
data_fetch_context(analysis, artifact_identification, resp) ==
    IF resp.ok
    THEN [status |-> "success",
          historical_context |-> [reply_to |-> <<artifact_identification, analysis>>]]
    ELSE ErrorResult("Data fetching failed: " \o resp.e)

\* EnvironmentalAgent.predict_degradation_timeline
predict_degradation_timeline(historical_context, years, material, resp) ==
    LET degradation_data == predict_degradation(material, years)
    IN  IF resp.ok
        THEN [status |-> "success",
              time_span_years |-> years,
              degradation_data |-> degradation_data,
              environmental_predictions |-> [reply_to |-> historical_context]]
        ELSE ErrorResult("Environmental analysis failed: " \o resp.e)

\* RootAgent.process_artifact, lines 34-38
root_results_init(image_path, time_span) ==
    [image_path |-> image_path, time_span |-> time_span, workflow_status |-> "initiated"]

\* lines 50-58
root_after_restoration(res, restoration_result) ==
    LET r1 == SetKey(res, "restoration", restoration_result)
        image == Get(restoration_result, "restored_image_base64", PyNone)
        r2 == IF image # PyNone THEN SetKey(r1, "restored_image", image) ELSE r1
    IN  IF Status(restoration_result) # "success"
        THEN [returned |-> TRUE,
              results |-> SetKey(r2, "workflow_status", "failed_at_restoration")]
        ELSE [returned |-> FALSE, results |-> r2]

\* mutant: lines 67-72 without the return
root_after_data_no_return(res, data_result) ==
    LET r1 == SetKey(res, "data_fetcher", data_result)
    IN  IF Status(data_result) # "success"
        THEN [returned |-> FALSE,
              results |-> SetKey(r1, "workflow_status", "failed_at_data_fetcher")]
        ELSE [returned |-> FALSE, results |-> r1]

\* lines 67-72
root_after_data(res, data_result) ==
    LET r1 == SetKey(res, "data_fetcher", data_result)
    IN  IF Status(data_result) # "success"
        THEN [returned |-> TRUE,
              results |-> SetKey(r1, "workflow_status", "failed_at_data_fetcher")]
        ELSE [returned |-> FALSE, results |-> r1]

\* lines 84-99
root_after_environmental(res, environmental_result) ==
    LET r1 == SetKey(res, "environmental", environmental_result)
    IN  IF Status(environmental_result) # "success"
        THEN [returned |-> TRUE,
              results |-> SetKey(r1, "workflow_status", "failed_at_environmental")]
        ELSE [returned |-> TRUE, results |-> SetKey(r1, "workflow_status", "completed")]

\* the caller enters RootAgent.process_artifact(image_path, time_span)
RootStart ==
    /\ pc[1] = "idle"
    /\ \E image_path \in Images, time_span \in Spans :
          /\ args' = [args EXCEPT ![1] = [image_path |-> image_path,
                                         restoration_level |-> "",
                                         time_span |-> time_span]]
          /\ results' = [results EXCEPT ![1] = root_results_init(image_path, time_span)]
    /\ pc' = [pc EXCEPT ![1] = "root_restoration"]
    /\ UNCHANGED <<context, frame>>

\* line 49: the restoration agent returns; lines 50-60
RootRestoration ==
    /\ pc[1] = "root_restoration"
    /\ \E vresp \in VisionResponses, env \in RestoreEnvs, gresp \in TextResponses :
          LET o == root_after_restoration(results[1],
                       analyze_and_restore(args[1].image_path, vresp, env, gresp))
          IN  /\ results' = [results EXCEPT ![1] = o.results]
              /\ pc' = [pc EXCEPT ![1] = IF o.returned THEN "done" ELSE "root_data"]
    /\ UNCHANGED <<context, args, frame>>

\* lines 64-66: the data fetcher returns; lines 67-74
RootData ==
    /\ pc[1] = "root_data"
    /\ \E resp \in TextResponses :
          LET restoration_result == results[1].restoration
              o == root_after_data(results[1],
                       data_fetch_context(Get(restoration_result, "analysis", Str("")),
                                          Get(restoration_result, "artifact_identification",
                                              Str("")),
                                          resp))
          IN  /\ results' = [results EXCEPT ![1] = o.results]
              /\ pc' = [pc EXCEPT ![1] = IF o.returned THEN "done" ELSE "root_environmental"]
    /\ UNCHANGED <<context, args, frame>>

\* lines 78-83: the environmental agent returns; lines 84-99
RootEnvironmental ==
    /\ pc[1] = "root_environmental"
    /\ \E resp \in TextResponses :
          LET o == root_after_environmental(results[1],
                       predict_degradation_timeline(
                           Get(results[1].data_fetcher, "historical_context", Str("")),
                           args[1].time_span, "canvas", resp))
          IN  /\ results' = [results EXCEPT ![1] = o.results]
              /\ pc' = [pc EXCEPT ![1] = "done"]
    /\ UNCHANGED <<context, args, frame>>

\* the caller is done with the returned results and may call again
RootRespond ==
    /\ pc[1] = "done"
    /\ pc' = [pc EXCEPT ![1] = "idle"]
    /\ args' = [args EXCEPT ![1] = NoArgs]
    /\ results' = [results EXCEPT ![1] = NoResults]
    /\ UNCHANGED <<context, frame>>

NextRoot == RootStart \/ RootRestoration \/ RootData \/ RootEnvironmental \/ RootRespond
SpecRoot == Init /\ [][NextRoot]_vars

RootStages == <<"restoration", "data_fetcher", "environmental">>
RootInvoked(i) == RootStages[i] \in DOMAIN results[1]
RootFailed(i) == RootInvoked(i) /\ Status(results[1][RootStages[i]]) # "success"

\* C33: in RootAgent.process_artifact a stage is invoked only if every stage
\* before it was invoked and succeeded; the returned workflow_status is
\* failed_at_<stage> for the stage whose status is not success, if there is
\* one, and completed only if the three stages were invoked and succeeded.
C33_LegacyFatalOnly ==
    /\ \A i \in 1..3 : RootInvoked(i) =>
           \A j \in 1..(i - 1) : RootInvoked(j) /\ ~RootFailed(j)
    /\ pc[1] = "done" =>
           /\ \A i \in 1..3 :
                  RootFailed(i) => results[1].workflow_status = "failed_at_" \o RootStages[i]
           /\ results[1].workflow_status = "completed"
                  <=> \A i \in 1..3 : RootInvoked(i) /\ ~RootFailed(i)
C33_Witness ==
    /\ pc[1] = "done"
    /\ RootFailed(2)
    /\ ~RootInvoked(3)
    /\ results[1].workflow_status = "failed_at_data_fetcher"

\* the name under which process_artifact records a stage in agents_executed
AgentName ==
    [vision |-> "VisionAnalysisAgent", restoration |-> "RestorationGenerationAgent",
     historical |-> "HistoricalContextAgent", environmental |-> "EnvironmentalPredictionAgent"]
\* the stages with a recorded output in the context
RecordedStages == {stage \in StageIds : DictHas(agent_outputs, stage)}
\* the stages run r has executed
StagesExecutedBy(r) ==
    {stage \in StageIds :
        \E i \in 1..Len(ExecutedStages(r)) : ExecutedStages(r)[i] = AgentName[stage]}

DependencyMessages ==
    {"Vision analysis required before restoration", "Vision analysis required",
     "Vision and historical analysis required"}
\* the stages whose successful output a stage needs
Needs ==
    [restoration |-> {"vision"}, historical |-> {"vision"},
     environmental |-> {"vision", "historical"}]
EnterPoint ==
    [restoration |-> "restoration_enter", historical |-> "historical_enter",
     environmental |-> "environmental_enter"]

ReturnsDependencyError(stage) ==
    /\ results' # results
    /\ Invoked(1, stage)'
    /\ Get(results'[1][ResultKey[stage]], "message", "") \in DependencyMessages

\* C37: a step in which the handler of Restoration, Historical or
\* Environmental returns its precondition error is a single step of a client
\* that was not blocked in a capability call, and it leaves the facts, the
\* stage outputs and the conversation log as they were.
C37_UnmetPreconditionLeavesContext ==
    [][\A stage \in DOMAIN Needs :
          ReturnsDependencyError(stage) =>
             /\ pc[1] = "idle" /\ pc'[1] = "idle"
             /\ frame' = frame
             /\ context' = context
      ]_vars
C37_Witness ==
    /\ Invoked(1, "environmental")
    /\ results[1][ResultKey["environmental"]]
          = ErrorResult("Vision and historical analysis required")
    /\ DictHas(agent_outputs, "vision")
    /\ ~DictHas(agent_outputs, "environmental")

BandRank ==
    [Excellent |-> 1, Good |-> 2, Fair |-> 3, Poor |-> 4, Critical |-> 5]

\* C38: the percentage the degradation tool returns for a material and a
\* number of years >= 0 lies in 0..100, and for any larger number of years the
\* tool returns a percentage that is not smaller and a band that is not better.
C38_MonotoneInYears ==
    (frame[1] # NoFrame /\ "degradation_data" \in DOMAIN frame[1]) =>
        LET d == frame[1].degradation_data
        IN  /\ d.degradation_percentage \in 0..1000
            /\ \A later \in Years :
                   later >= d.years =>
                      LET e == predict_degradation(d.material, later)
                      IN  /\ e.degradation_percentage >= d.degradation_percentage
                          /\ BandRank[BandOf(e.condition)] >= BandRank[BandOf(d.condition)]

\* the tool has answered (canvas, 10): 35.0 per cent, Fair; for 30 years and
\* more the cap applies
C38_Witness ==
    /\ frame[1] # NoFrame /\ "degradation_data" \in DOMAIN frame[1]
    /\ frame[1].degradation_data.material = "canvas"
    /\ frame[1].degradation_data.years = 10
    /\ frame[1].degradation_data.degradation_percentage = 350
    /\ predict_degradation("canvas", 30).degradation_percentage = 1000
    /\ predict_degradation("canvas", 100).degradation_percentage = 1000


=============================================================================
